---------------------------- MODULE Spec2Model ----------------------------
(***************************************************************************)
(* Model of magellan/package_utils.py: the Package class (node distances,  *)
(* ancestor trace, memoised facade calls, PyPI version classification) and *)
(* Requirements.compare_req_file_to_env.                                   *)
(*                                                                         *)
(* Python strings are sequences of one-character strings, so that lower(), *)
(* split('.') and the substring test 'root' in str(nx) are computed.       *)
(* A node is <<name, version>>, an edge is <<node_from, node_to>>.         *)
(***************************************************************************)
EXTENDS Integers, Sequences, FiniteSets, TLC

VARIABLES
    name,            \* Package.name (Package.key is Lower(name))
    version,         \* Package.version
    node_distances,  \* Package._node_distances: [list |-> .., dict |-> ..]
    anc_trace_memo,  \* Package._ancestor_trace
    ancestors_memo,  \* Package._ancestors
    descendants_memo,\* Package._descendants
    search,          \* the traversal in progress: rec_fun's arguments and the
                     \* dictionaries of its enclosing call
    venv,            \* the environment (nodes, edges) handed to the calls
    call,            \* the last call: operation, arguments and what it returned
    ncalls           \* number of facade calls made so far (bounded)

vars == <<name, version, node_distances, anc_trace_memo, ancestors_memo,
          descendants_memo, search, venv, call, ncalls>>

----------------------------------------------------------------------------
(* Bounds of the model *)

MaxEdges == 3
MaxCalls == 2
MaxIndex == 3
MaxSpecs == 2

----------------------------------------------------------------------------
(* Python values *)

\* a Python value: kind is "None", "dict", "list" or "raise" (an exception, named
\* by val)
None == [kind |-> "None", val |-> << >>]
Raise(exc) == [kind |-> "raise", val |-> exc]
Value(kind, val) == [kind |-> kind, val |-> val]

\* truth value of a memo: None and empty containers are false
Truthy(v) == v.kind \in {"dict", "list"} /\ DOMAIN v.val # {}

Range(s) == { s[i] : i \in 1..Len(s) }

Abs(n) == IF n < 0 THEN -n ELSE n

Upper == <<"A","B","C","D","E","F","G","H","I","J","K","L","M",
           "N","O","P","Q","R","S","T","U","V","W","X","Y","Z">>
LowerCase == <<"a","b","c","d","e","f","g","h","i","j","k","l","m",
               "n","o","p","q","r","s","t","u","v","w","x","y","z">>

ToLower ==
    [c \in Range(Upper) |-> LowerCase[CHOOSE i \in 1..Len(Upper) : Upper[i] = c]]

LowerChar(c) == IF c \in DOMAIN ToLower THEN ToLower[c] ELSE c

\* str.lower()
Lower(s) == [i \in 1..Len(s) |-> LowerChar(s[i])]

\* sub in s, for strings
Contains(s, sub) ==
    \E i \in 1..(Len(s) - Len(sub) + 1) : SubSeq(s, i, i + Len(sub) - 1) = sub

\* repr of a string and of a (name, version) tuple, as str() of a tuple prints them
ReprStr(s) == <<"'">> \o s \o <<"'">>
ReprNode(n) == <<"(">> \o ReprStr(n[1]) \o <<",", " ">> \o ReprStr(n[2]) \o <<")">>
\* str(nx) for an edge nx
StrEdge(nx) == <<"(">> \o ReprNode(nx[1]) \o <<",", " ">> \o ReprNode(nx[2]) \o <<")">>

RootStr == <<"r","o","o","t">>
RootVersion == <<"0",".","0",".","0">>
RootNode == <<RootStr, RootVersion>>

\* the filter "nx for nx in links if 'root' not in str(nx)"
DropRoot(links) == SelectSeq(links, LAMBDA nx : ~Contains(StrEdge(nx), RootStr))

start_distance == -999

----------------------------------------------------------------------------
(* Graph primitives *)

\* Package.get_direct_links_to_any_package: raises InvalidEdges on no edges,
\* else (ancestors, descendants)
InvalidEdgesRaised(edges) == edges = << >>

\* (variant: the edge's name compared as written, not lower-cased)
AncestorsOfMutant(package, edges) ==
    SelectSeq(edges, LAMBDA x : Lower(package) = x[2][1])

\* [x for x in edges if package.lower() == x[1][0].lower()]
AncestorsOf(package, edges) ==
    SelectSeq(edges, LAMBDA x : Lower(package) = Lower(x[2][1]))
DescendantsOf(package, edges) ==
    SelectSeq(edges, LAMBDA x : Lower(package) = Lower(x[1][1]))

get_direct_links_to_any_package(package, edges) ==
    <<AncestorsOf(package, edges), DescendantsOf(package, edges)>>


----------------------------------------------------------------------------
(* Breadth-first propagation *)

NoExc == "none"

\* list(set(xs)): the distinct elements in an order Python does not fix
Orderings(S) == { s \in [1..Cardinality(S) -> S] : Range(s) = S }

\* dist_dict / node_touched as built before the traversal
InitDict(nodes, include_root, v) ==
    [k \in { Lower(nodes[i][1]) : i \in 1..Len(nodes) }
            \cup (IF include_root THEN {RootStr} ELSE {}) |-> v]

InitSearch(nodes, include_root) ==
    [dist_dict |-> InitDict(nodes, include_root, start_distance),
     node_touched |-> InitDict(nodes, include_root, FALSE),
     to_search_next |-> << >>,
     levels |-> << >>,
     exc |-> NoExc]

\* (variant: the level is assigned at every visit)
SetLevelMutant(dist_dict, p, cur_level) == [dist_dict EXCEPT ![p] = cur_level]

\* if abs(dist_dict[p]) > cur_level: dist_dict[p] = cur_level
SetLevel(dist_dict, p, cur_level) ==
    IF Abs(dist_dict[p]) > cur_level
    THEN [dist_dict EXCEPT ![p] = cur_level]
    ELSE dist_dict

\* the keys of the far ends of the links, descendants first
DecKeys(dec) == [i \in 1..Len(dec) |-> Lower(dec[i][2][1])]
AncKeys(anc) == [i \in 1..Len(anc) |-> Lower(anc[i][1][1])]

\* [k for k in keys if not node_touched[k]]
Untouched(keys, node_touched) == SelectSeq(keys, LAMBDA k : ~node_touched[k])

\* (variant: a visit that gathers the descendant links only)
VisitNodeMutant(p, cur_level, st, edges, include_root) ==
    IF st.exc # NoExc THEN st
    ELSE IF p \notin DOMAIN st.dist_dict THEN [st EXCEPT !.exc = "KeyError"]
    ELSE
      LET d1 == SetLevel(st.dist_dict, p, cur_level)
          t1 == [st.node_touched EXCEPT ![p] = TRUE]
          s1 == [st EXCEPT !.dist_dict = d1, !.node_touched = t1]
      IN IF InvalidEdgesRaised(edges) THEN [s1 EXCEPT !.exc = "InvalidEdges"]
         ELSE
           LET links == get_direct_links_to_any_package(p, edges)
               dec == IF include_root THEN links[2] ELSE DropRoot(links[2])
               keys == DecKeys(dec)
           IN IF \E i \in 1..Len(keys) : keys[i] \notin DOMAIN t1
              THEN [s1 EXCEPT !.exc = "KeyError"]
              ELSE [s1 EXCEPT !.to_search_next = @ \o Untouched(keys, t1)]

\* One iteration of "for p in search_set" of calc_node_distances.rec_fun
VisitNode(p, cur_level, st, edges, include_root) ==
    IF st.exc # NoExc THEN st
    ELSE IF p \notin DOMAIN st.dist_dict THEN [st EXCEPT !.exc = "KeyError"]
    ELSE
      LET d1 == SetLevel(st.dist_dict, p, cur_level)
          t1 == [st.node_touched EXCEPT ![p] = TRUE]
          s1 == [st EXCEPT !.dist_dict = d1, !.node_touched = t1]
      IN IF InvalidEdgesRaised(edges) THEN [s1 EXCEPT !.exc = "InvalidEdges"]
         ELSE
           LET links == get_direct_links_to_any_package(p, edges)
               anc == IF include_root THEN links[1] ELSE DropRoot(links[1])
               dec == IF include_root THEN links[2] ELSE DropRoot(links[2])
               keys == DecKeys(dec) \o AncKeys(anc)
           IN IF \E i \in 1..Len(keys) : keys[i] \notin DOMAIN t1
              THEN [s1 EXCEPT !.exc = "KeyError"]
              ELSE [s1 EXCEPT !.to_search_next = @ \o Untouched(keys, t1)]

\* (variant: a trace visit that gathers links of both directions)
VisitAncestorsMutant(p, cur_level, st, edges, include_root) ==
    VisitNode(p, cur_level, st, edges, include_root)

\* One iteration of "for p in search_set" of ancestor_trace.rec_fun:
\* only the ancestor links are gathered
VisitAncestors(p, cur_level, st, edges, include_root) ==
    IF st.exc # NoExc THEN st
    ELSE IF p \notin DOMAIN st.dist_dict THEN [st EXCEPT !.exc = "KeyError"]
    ELSE
      LET d1 == SetLevel(st.dist_dict, p, cur_level)
          t1 == [st.node_touched EXCEPT ![p] = TRUE]
          s1 == [st EXCEPT !.dist_dict = d1, !.node_touched = t1]
      IN IF InvalidEdgesRaised(edges) THEN [s1 EXCEPT !.exc = "InvalidEdges"]
         ELSE
           LET links == get_direct_links_to_any_package(p, edges)
               anc == IF include_root THEN links[1] ELSE DropRoot(links[1])
               keys == AncKeys(anc)
           IN IF \E i \in 1..Len(keys) : keys[i] \notin DOMAIN t1
              THEN [s1 EXCEPT !.exc = "KeyError"]
              ELSE [s1 EXCEPT !.to_search_next = @ \o Untouched(keys, t1)]

\* the whole "for p in search_set" loop
RECURSIVE VisitAll(_, _, _, _, _, _)
VisitAll(search_set, i, cur_level, st, edges, include_root) ==
    IF i > Len(search_set) THEN st
    ELSE VisitAll(search_set, i + 1, cur_level,
                  VisitNode(search_set[i], cur_level, st, edges, include_root),
                  edges, include_root)

RECURSIVE VisitAllAncestors(_, _, _, _, _, _)
VisitAllAncestors(search_set, i, cur_level, st, edges, include_root) ==
    IF i > Len(search_set) THEN st
    ELSE VisitAllAncestors(search_set, i + 1, cur_level,
                  VisitAncestors(search_set[i], cur_level, st, edges, include_root),
                  edges, include_root)

\* calc_node_distances.rec_fun: the set of final searches, one per order in
\* which the frontiers list(set(to_search_next)) can come out
RECURSIVE rec_fun(_, _, _, _, _)
rec_fun(search_set, cur_level, st, edges, include_root) ==
    LET s0 == [st EXCEPT !.to_search_next = << >>,
                         !.levels = Append(@, search_set)]
        s1 == VisitAll(search_set, 1, cur_level, s0, edges, include_root)
    IN IF s1.exc # NoExc \/ s1.to_search_next = << >> THEN {s1}
       ELSE UNION { rec_fun(nxt, cur_level + 1, s1, edges, include_root) :
                        nxt \in Orderings(Range(s1.to_search_next)) }

\* ancestor_trace.rec_fun
RECURSIVE anc_rec_fun(_, _, _, _, _)
anc_rec_fun(search_set, cur_level, st, edges, include_root) ==
    LET s0 == [st EXCEPT !.to_search_next = << >>,
                         !.levels = Append(@, search_set)]
        s1 == VisitAllAncestors(search_set, 1, cur_level, s0, edges, include_root)
    IN IF s1.exc # NoExc \/ s1.to_search_next = << >> THEN {s1}
       ELSE UNION { anc_rec_fun(nxt, cur_level + 1, s1, edges, include_root) :
                        nxt \in Orderings(Range(s1.to_search_next)) }

----------------------------------------------------------------------------
(* Results *)

\* what a traversal leaves: the value returned (or the exception raised) and the
\* frontiers it went through
Outcome(ret, levels) == [ret |-> ret, levels |-> levels]

\* {(x[0], x[1]): dist_dict[x[0].lower()] for x in nodes [if reached]}, plus root
DictResult(nodes, dist_dict, include_root, keep_untouched_nodes) ==
    LET kept == { n \in Range(nodes) :
                    keep_untouched_nodes \/ dist_dict[Lower(n[1])] > start_distance }
        dom == kept \cup (IF include_root THEN {RootNode} ELSE {})
    IN [n \in dom |-> dist_dict[Lower(n[1])]]

\* [(x[0], x[1], dist_dict[x[0].lower()]) for x in nodes [if reached]], plus root
ListResult(nodes, dist_dict, include_root, keep_untouched_nodes) ==
    LET triples == [i \in 1..Len(nodes) |->
                       <<nodes[i][1], nodes[i][2], dist_dict[Lower(nodes[i][1])]>>]
        kept == SelectSeq(triples,
                          LAMBDA t : keep_untouched_nodes \/ t[3] > start_distance)
    IN IF include_root
       THEN Append(kept, <<RootStr, RootVersion, dist_dict[RootStr]>>)
       ELSE kept

\* Package.calc_node_distances: the set of outcomes of a call. v is the
\* environment: v.has_nodes is hasattr(nodes, '__iter__')
calc_node_distances(package_in, v, include_root, keep_untouched_nodes, list_or_dict) ==
    LET package == Lower(package_in)
        kind == IF list_or_dict = "list" THEN "list" ELSE "dict"
    IN IF ~v.has_nodes THEN {Outcome(Raise("InvalidNodes"), << >>)}
       ELSE IF package \notin DOMAIN InitDict(v.nodes, include_root, start_distance)
       THEN {Outcome(Value(kind, << >>), << >>)}
       ELSE { IF s.exc # NoExc THEN Outcome(Raise(s.exc), s.levels)
              ELSE IF kind = "list"
              THEN Outcome(Value(kind, ListResult(v.nodes, s.dist_dict, include_root,
                                                  keep_untouched_nodes)), s.levels)
              ELSE Outcome(Value(kind, DictResult(v.nodes, s.dist_dict, include_root,
                                                  keep_untouched_nodes)), s.levels)
              : s \in rec_fun(<<package>>, 0, InitSearch(v.nodes, include_root),
                              v.edges, include_root) }

\* the computing part of Package.ancestor_trace (include_root is set to True
\* at its top); iterating venv.nodes when it is not iterable is a TypeError
AncestorTraceCalc(key, v, keep_untouched_nodes) ==
    IF ~v.has_nodes THEN {Outcome(Raise("TypeError"), << >>)}
    ELSE { IF s.exc # NoExc THEN Outcome(Raise(s.exc), s.levels)
           ELSE Outcome(Value("dict", DictResult(v.nodes, s.dist_dict, TRUE,
                                                 keep_untouched_nodes)), s.levels)
           : s \in anc_rec_fun(<<key>>, 0, InitSearch(v.nodes, TRUE), v.edges, TRUE) }

----------------------------------------------------------------------------
(* The Package methods *)

NoCall == [op |-> "none", args |-> << >>, ret |-> None, levels |-> << >>]

\* no traversal is in progress
NoSearch == [status |-> "idle"]

\* Package.__init__
NewPackage(n, ver) ==
    /\ name = n
    /\ version = ver
    /\ node_distances = [list |-> None, dict |-> None]
    /\ anc_trace_memo = Value("list", << >>)
    /\ ancestors_memo = << >>
    /\ descendants_memo = << >>
    /\ search = NoSearch
    /\ call = NoCall
    /\ ncalls = 0

\* a direct call Package.calc_node_distances(name, venv.nodes, venv.edges, ...)
CalcNodeDistances(v, include_root, keep_untouched_nodes, list_or_dict) ==
    /\ \E o \in calc_node_distances(name, v, include_root, keep_untouched_nodes,
                                    list_or_dict) :
          call' = [op |-> "calc_node_distances",
                   args |-> [include_root |-> include_root,
                             keep_untouched_nodes |-> keep_untouched_nodes,
                             list_or_dict |-> list_or_dict],
                   ret |-> o.ret, levels |-> o.levels]
    /\ venv' = v
    /\ UNCHANGED <<name, version, node_distances, anc_trace_memo>>
    /\ UNCHANGED <<ancestors_memo, descendants_memo, search>>

\* Package.ancestor_trace(venv, keep_untouched_nodes, do_full_calc)
AncestorTrace(v, keep_untouched_nodes, do_full_calc) ==
    /\ IF Truthy(anc_trace_memo) /\ ~do_full_calc
       THEN /\ call' = [op |-> "ancestor_trace",
                        args |-> [keep_untouched_nodes |-> keep_untouched_nodes,
                                  do_full_calc |-> do_full_calc],
                        ret |-> anc_trace_memo, levels |-> << >>]
            /\ UNCHANGED anc_trace_memo
       ELSE \E o \in AncestorTraceCalc(Lower(name), v, keep_untouched_nodes) :
            /\ call' = [op |-> "ancestor_trace",
                        args |-> [keep_untouched_nodes |-> keep_untouched_nodes,
                                  do_full_calc |-> do_full_calc],
                        ret |-> o.ret, levels |-> o.levels]
            /\ anc_trace_memo' = IF o.ret.kind = "raise" THEN anc_trace_memo ELSE o.ret
    /\ venv' = v
    /\ UNCHANGED <<name, version, node_distances>>
    /\ UNCHANGED <<ancestors_memo, descendants_memo, search>>

\* if not self._node_distances[list_or_dict] or do_full_calc
NeedsCalcMutant(memo, do_full_calc) == ~Truthy(memo)
NeedsCalc(memo, do_full_calc) == ~Truthy(memo) \/ do_full_calc

\* Package.calc_self_node_distances(venv, include_root, keep_untouched_nodes,
\* list_or_dict, do_full_calc)
CalcSelfNodeDistances(v, include_root, keep_untouched_nodes, list_or_dict, do_full_calc) ==
    LET args == [include_root |-> include_root,
                 keep_untouched_nodes |-> keep_untouched_nodes,
                 list_or_dict |-> list_or_dict,
                 do_full_calc |-> do_full_calc]
    IN
    /\ IF NeedsCalc(node_distances[list_or_dict], do_full_calc)
       THEN \E o \in calc_node_distances(name, v, include_root,
                                         keep_untouched_nodes, list_or_dict) :
            /\ call' = [op |-> "calc_self_node_distances", args |-> args,
                        ret |-> o.ret, levels |-> o.levels]
            /\ node_distances' = IF o.ret.kind = "raise" THEN node_distances
                                 ELSE [node_distances EXCEPT ![list_or_dict] = o.ret]
       ELSE /\ call' = [op |-> "calc_self_node_distances", args |-> args,
                        ret |-> node_distances[list_or_dict], levels |-> << >>]
            /\ UNCHANGED node_distances
    /\ venv' = v
    /\ UNCHANGED <<name, version, anc_trace_memo>>
    /\ UNCHANGED <<ancestors_memo, descendants_memo, search>>

----------------------------------------------------------------------------
(* Environments the calls are given *)

Ver10 == <<"1", ".", "0">>
NodeA == << <<"a">>, Ver10 >>
NodeB == << <<"B">>, Ver10 >>
NodeUproot == << <<"u","p","r","o","o","t">>, Ver10 >>
AbsentName == <<"z">>

\* the node lists: the packages, with or without the environment's root node
NodeLists == { <<NodeA, NodeB, NodeUproot>>, <<RootNode, NodeA, NodeB, NodeUproot>> }

\* the possible edges over a node list, in a fixed order: the root node is only
\* ever the from-end of an edge (the environment depends on its packages)
Sources(nodes) == IF RootNode \in Range(nodes) THEN nodes ELSE <<RootNode>> \o nodes
Targets(nodes) == SelectSeq(nodes, LAMBDA n : n # RootNode)
EdgeAt(nodes, k) ==
    LET m == Len(Targets(nodes))
    IN << Sources(nodes)[((k - 1) \div m) + 1], Targets(nodes)[((k - 1) % m) + 1] >>

\* edge lists of up to n edges, duplicates and self-loops included, up to reordering
EdgeLists(nodes, n) ==
    LET m == Len(Sources(nodes)) * Len(Targets(nodes))
    IN UNION { { [i \in 1..len |-> EdgeAt(nodes, ix[i])] :
                 ix \in { f \in [1..len -> 1..m] :
                            \A i \in 1..(len - 1) : f[i] <= f[i + 1] } } :
               len \in 0..n }

Venvs(n) ==
    UNION { { [nodes |-> nodes, edges |-> edges, has_nodes |-> TRUE] :
                edges \in EdgeLists(nodes, n) } : nodes \in NodeLists }

PackageNames == { NodeA[1], NodeB[1], NodeUproot[1], RootStr }

----------------------------------------------------------------------------
(* SpecEngine: a new Package and an environment; one call of the distance
   computation or of the ancestor trace, with every choice of options *)

InitEngine ==
    /\ \E n \in PackageNames : NewPackage(n, None)
    /\ venv \in Venvs(MaxEdges)

EngineCalcNodeDistances ==
    /\ ncalls = 0
    /\ ncalls' = 1
    /\ \E ir \in BOOLEAN, keep \in BOOLEAN, shape \in {"list", "dict"} :
          CalcNodeDistances(venv, ir, keep, shape)

EngineAncestorTrace ==
    /\ ncalls = 0
    /\ ncalls' = 1
    /\ \E keep \in BOOLEAN, force \in BOOLEAN : AncestorTrace(venv, keep, force)

NextEngine == EngineCalcNodeDistances \/ EngineAncestorTrace

SpecEngine == InitEngine /\ [][NextEngine]_vars

\* SpecDistance: the same, with the distance computation alone
NextDistance == EngineCalcNodeDistances

SpecDistance == InitEngine /\ [][NextDistance]_vars

----------------------------------------------------------------------------
(* Reference notions for the graph claims: hop counts over the keys *)

NodeKeys(nodes) == { Lower(nodes[i][1]) : i \in 1..Len(nodes) }

\* the edges as pairs <<key_from, key_to>>
Links(edges) == { <<Lower(edges[i][1][1]), Lower(edges[i][2][1])>> : i \in 1..Len(edges) }

\* the graph without the edges that touch the root node
WithoutRoot(L) == { l \in L : l[1] # RootStr /\ l[2] # RootStr }

\* one more hop in either direction / against the direction of the edges
Grow(L, S) == S \cup { l[2] : l \in { m \in L : m[1] \in S } }
                \cup { l[1] : l \in { m \in L : m[2] \in S } }
GrowUp(L, S) == S \cup { l[1] : l \in { m \in L : m[2] \in S } }

\* least number of hops from the keys S to key t, -1 when there is no path
RECURSIVE Hops(_, _, _, _)
Hops(L, S, t, k) ==
    IF t \in S THEN k
    ELSE IF Grow(L, S) = S THEN -1
    ELSE Hops(L, Grow(L, S), t, k + 1)

RECURSIVE UpHops(_, _, _, _)
UpHops(L, S, t, k) ==
    IF t \in S THEN k
    ELSE IF GrowUp(L, S) = S THEN -1
    ELSE UpHops(L, GrowUp(L, S), t, k + 1)

\* the distances a returned map or list reports for node n (none: n is omitted)
Entry(ret, n) ==
    IF ret.kind = "dict"
    THEN { ret.val[m] : m \in { x \in DOMAIN ret.val : x = n } }
    ELSE IF ret.kind = "list"
    THEN { ret.val[i][3] : i \in { j \in 1..Len(ret.val) :
                                     <<ret.val[j][1], ret.val[j][2]>> = n } }
    ELSE {}

\* the keys a returned map reports as reached
ReachedKeys(ret) ==
    { Lower(n[1]) : n \in { x \in DOMAIN ret.val : ret.val[x] > start_distance } }

OriginInNodes == venv.has_nodes /\ Lower(name) \in NodeKeys(venv.nodes)

----------------------------------------------------------------------------
(* Claims about the distance computation (SpecDistance) and the ancestor trace
   (SpecEngine) *)

\* C1: for every snapshot with edges and every origin in the node set,
\* calc_node_distances gives every node its least undirected hop count from the
\* origin (0 for the origin); a node without a path has -999 when
\* keep_untouched_nodes is true and is omitted otherwise (the root entry that
\* include_root always adds aside); with include_root false the paths are those
\* of the graph without exactly the edges that touch the root node.
C1_MinimumHops ==
    (call.op = "calc_node_distances" /\ venv.edges # << >> /\ OriginInNodes) =>
        /\ call.ret.kind # "raise"
        /\ \A n \in Range(venv.nodes) :
             LET L == IF call.args.include_root THEN Links(venv.edges)
                      ELSE WithoutRoot(Links(venv.edges))
                 h == Hops(L, {Lower(name)}, Lower(n[1]), 0)
             IN Entry(call.ret, n) =
                  IF h >= 0 THEN {h}
                  ELSE IF call.args.keep_untouched_nodes
                          \/ (call.args.include_root /\ n = RootNode)
                  THEN {start_distance}
                  ELSE {}

\* C2: for every snapshot with edges and every origin in the node set,
\* ancestor_trace reports a non-sentinel distance for exactly the origin (0) and
\* the nodes from which the origin is reached by following edges from node_from
\* to node_to, and that distance is the least number of such hops.
C2_AncestorsOnly ==
    (call.op = "ancestor_trace" /\ venv.edges # << >> /\ OriginInNodes) =>
        /\ call.ret.kind = "dict"
        /\ \A n \in Range(venv.nodes) \cup {RootNode} :
             LET h == UpHops(Links(venv.edges), {Lower(name)}, Lower(n[1]), 0)
             IN Entry(call.ret, n) \ {start_distance} = IF h >= 0 THEN {h} ELSE {}

\* C2 witness: a trace that reports a node two hops up and leaves out a node
\* that is linked to the origin only as a descendant
C2_Witness ==
    /\ call.op = "ancestor_trace" /\ call.ret.kind = "dict" /\ OriginInNodes
    /\ \E n \in Range(venv.nodes) : Entry(call.ret, n) = {2}
    /\ \E n \in Range(venv.nodes) :
          /\ Entry(call.ret, n) \ {start_distance} = {}
          /\ Hops(Links(venv.edges), {Lower(name)}, Lower(n[1]), 0) = 1

\* C3 as stated: the nodes the ancestor trace reaches are among the nodes the
\* distance computation with its default options (include_root false) reaches
C3_SubsetWithDefaults ==
    (call.op = "ancestor_trace" /\ call.ret.kind = "dict") =>
        \A o \in calc_node_distances(name, venv, FALSE, FALSE, "dict") :
            /\ o.ret.kind = "dict"
            /\ ReachedKeys(call.ret) \subseteq ReachedKeys(o.ret)

\* C3 amended: the nodes the ancestor trace reaches are among the nodes the
\* distance computation reaches when it is run with include_root true
C3_SubsetWithRoot ==
    (call.op = "ancestor_trace" /\ call.ret.kind = "dict") =>
        \A o \in calc_node_distances(name, venv, TRUE, FALSE, "dict") :
            /\ o.ret.kind = "dict"
            /\ ReachedKeys(call.ret) \subseteq ReachedKeys(o.ret)

\* C3 witness: a trace with the default options that reaches the root node two
\* hops up from a package
C3_Witness ==
    /\ call.op = "ancestor_trace" /\ call.ret.kind = "dict" /\ OriginInNodes
    /\ ~call.args.keep_untouched_nodes /\ ~call.args.do_full_calc
    /\ Lower(name) # RootStr
    /\ Entry(call.ret, RootNode) = {2}

\* C4: for every snapshot and every two nodes A and B of the node set, with the
\* same options, B's distance computed from A equals A's distance computed from
\* B (the same hop count, or unreached on both sides). Each pair is compared in
\* the state whose origin A comes first in the node list.
C4_Symmetric ==
    (call.op = "calc_node_distances" /\ call.ret.kind # "raise" /\ OriginInNodes) =>
        \A i \in 1..Len(venv.nodes), j \in 1..Len(venv.nodes) :
            (i < j /\ Lower(venv.nodes[i][1]) = Lower(name)) =>
                \A o \in calc_node_distances(venv.nodes[j][1], venv,
                             call.args.include_root, call.args.keep_untouched_nodes,
                             call.args.list_or_dict) :
                    Entry(o.ret, venv.nodes[i]) \ {start_distance}
                        = Entry(call.ret, venv.nodes[j]) \ {start_distance}

\* C4 witness: a distance computation whose origin comes before a node of the
\* list that it reaches at two hops, so that the two directions are compared
C4_Witness ==
    /\ call.op = "calc_node_distances" /\ call.ret.kind # "raise" /\ OriginInNodes
    /\ \E i \in 1..Len(venv.nodes), j \in 1..Len(venv.nodes) :
          /\ i < j /\ Lower(venv.nodes[i][1]) = Lower(name)
          /\ Entry(call.ret, venv.nodes[j]) = {2}

----------------------------------------------------------------------------
(* Version strings *)

Str(s) == [kind |-> "str", val |-> s]
Bool(b) == [kind |-> "bool", val |-> b]

Digits == <<"0","1","2","3","4","5","6","7","8","9">>
IsDigit(c) == \E i \in 1..Len(Digits) : Digits[i] = c
DigitValue(c) == (CHOOSE i \in 1..Len(Digits) : Digits[i] = c) - 1

\* s.split('.')
RECURSIVE Split(_)
Split(s) ==
    IF \A i \in 1..Len(s) : s[i] # "."
    THEN <<s>>
    ELSE LET i == CHOOSE j \in 1..Len(s) :
                     s[j] = "." /\ \A k \in 1..(j - 1) : s[k] # "."
         IN <<SubSeq(s, 1, i - 1)>> \o Split(SubSeq(s, i + 1, Len(s)))

IsNumber(tok) == tok # << >> /\ \A i \in 1..Len(tok) : IsDigit(tok[i])

RECURSIVE ParseInt(_)
ParseInt(tok) ==
    IF tok = << >> THEN 0
    ELSE 10 * ParseInt(SubSeq(tok, 1, Len(tok) - 1)) + DigitValue(tok[Len(tok)])

RECURSIVE StripZeros(_)
StripZeros(parts) ==
    IF parts # << >> /\ parts[Len(parts)] = 2
    THEN StripZeros(SubSeq(parts, 1, Len(parts) - 1))
    ELSE parts

\* pkg_resources.parse_version: the sort key of a version string. A number n
\* is n + 2, the end of the release is 1 and a pre-release tag such as dev is
\* 0; zeros before a tag and before the end are dropped ("1.0.0" is "1").
RECURSIVE ParseParts(_, _, _)
ParseParts(toks, i, parts) ==
    IF i > Len(toks) THEN Append(StripZeros(parts), 1)
    ELSE IF IsNumber(toks[i])
    THEN ParseParts(toks, i + 1, Append(parts, ParseInt(toks[i]) + 2))
    ELSE ParseParts(toks, i + 1, Append(StripZeros(parts), 0))

parse_version(s) == ParseParts(Split(s), 1, << >>)

\* tuple comparison a < b
RECURSIVE SeqLess(_, _)
SeqLess(a, b) ==
    IF b = << >> THEN FALSE
    ELSE IF a = << >> THEN TRUE
    ELSE IF a[1] # b[1] THEN a[1] < b[1]
    ELSE SeqLess(Tail(a), Tail(b))

\* distutils.version.LooseVersion: the numeric components, compared as a list
LooseVersion(s) == [i \in 1..Len(Split(s)) |-> ParseInt(Split(s)[i])]

\* rels.sort(key=LooseVersion)
RECURSIVE SortLoose(_)
SortLoose(rels) ==
    IF rels = {} THEN << >>
    ELSE LET m == CHOOSE x \in rels :
                     \A y \in rels \ {x} : ~SeqLess(LooseVersion(y), LooseVersion(x))
         IN <<m>> \o SortLoose(rels \ {m})

----------------------------------------------------------------------------
(* Version classification *)

\* Package.get_package_versions_from_pypi: None when the query fails or PyPI
\* lists no release, else the release ids in LooseVersion order.
\* pypi.ok: yarg.get succeeded; pypi.release_ids: what it listed
get_package_versions_from_pypi(pypi) ==
    IF ~pypi.ok THEN None
    ELSE IF pypi.release_ids = {} THEN None
    ELSE Value("list", SortLoose(pypi.release_ids))

ReturnInfo(code, major_outdated, major_latest, minor_outdated, minor_latest) ==
    Value("dict",
          [code |-> code,
           major_version |-> [outdated |-> major_outdated, latest |-> major_latest],
           minor_version |-> [outdated |-> minor_outdated, latest |-> minor_latest]])

\* [x for x in versions if x.split('.')[0] == major_v and x.split('.')[1] == minor_v]
MinorVersionsMutant(versions, major_v, minor_v) ==
    SelectSeq(versions, LAMBDA x : Split(x)[1] = major_v)
MinorVersions(versions, major_v, minor_v) ==
    SelectSeq(versions, LAMBDA x : Split(x)[1] = major_v /\ Split(x)[2] = minor_v)

\* x.split('.')[1] of the comprehension raises IndexError for such an x
MinorVersionsRaises(versions, major_v) ==
    \E i \in 1..Len(versions) :
        Split(versions[i])[1] = major_v /\ Len(Split(versions[i])) < 2

\* Package.check_latest_major_minor_versions(package, version), given what
\* PyPI answers for the package
check_latest_major_minor_versions(pypi, ver) ==
    LET got == get_package_versions_from_pypi(pypi)
        versions == got.val
        latest_major_version == versions[Len(versions)]
    IN IF got = None THEN ReturnInfo(-1, None, None, None, None)
       ELSE IF ver = None
       THEN ReturnInfo(-1, Bool(TRUE), Str(latest_major_version),
                           Bool(TRUE), Str(latest_major_version))
       ELSE IF SeqLess(parse_version(latest_major_version), parse_version(ver.val))
       THEN ReturnInfo(999, Bool(FALSE), ver, Bool(FALSE), ver)
       ELSE IF SeqLess(parse_version(ver.val), parse_version(latest_major_version))
       THEN IF Len(Split(ver.val)) < 2 THEN Raise("IndexError")
            ELSE LET major_v == Split(ver.val)[1]
                     minor_v == Split(ver.val)[2]
                 IN IF MinorVersionsRaises(versions, major_v) THEN Raise("IndexError")
                    ELSE LET minor_versions == MinorVersions(versions, major_v, minor_v)
                             latest_minor_version == minor_versions[Len(minor_versions)]
                         IN IF minor_versions = << >>
                            THEN ReturnInfo(1, Bool(TRUE), Str(latest_major_version),
                                            None, None)
                            ELSE ReturnInfo(1, Bool(TRUE), Str(latest_major_version),
                                     Bool(SeqLess(parse_version(ver.val),
                                                  parse_version(latest_minor_version))),
                                     Str(latest_minor_version))
       ELSE ReturnInfo(0, Bool(FALSE), Str(latest_major_version),
                          Bool(FALSE), Str(latest_major_version))

\* Package.check_versions()
CheckVersions(pypi) ==
    /\ call' = [op |-> "check_versions", args |-> [pypi |-> pypi],
                ret |-> check_latest_major_minor_versions(pypi, version),
                levels |-> << >>]
    /\ UNCHANGED <<name, version, node_distances, anc_trace_memo, venv>>
    /\ UNCHANGED <<ancestors_memo, descendants_memo, search>>

V1 == <<"1">>
V100 == <<"1", ".", "0", ".", "0">>
V101 == <<"1", ".", "0", ".", "1">>
V150 == <<"1", ".", "5", ".", "0">>
V200 == <<"2", ".", "0", ".", "0">>
V300 == <<"3", ".", "0", ".", "0">>
V10dev == <<"1", ".", "0", ".", "d", "e", "v">>

\* release ids PyPI may list, and versions a package may be installed at
ReleaseIds == { V1, V100, V101, V150, V200, V300 }
InstalledVersions == { Str(v) : v \in ReleaseIds \cup {V10dev} } \cup {None}

PypiAnswers(n) ==
    { [ok |-> FALSE, release_ids |-> {}] }
    \cup { [ok |-> TRUE, release_ids |-> r] :
             r \in { x \in SUBSET ReleaseIds : Cardinality(x) <= n } }

NoVenv == [nodes |-> << >>, edges |-> << >>, has_nodes |-> TRUE]

----------------------------------------------------------------------------
(* SpecClassify: a Package at some installed version, checked against what
   PyPI lists *)

InitClassify ==
    /\ \E ver \in InstalledVersions : NewPackage(NodeA[1], ver)
    /\ venv = NoVenv

NextClassify ==
    /\ ncalls = 0
    /\ ncalls' = 1
    /\ \E pypi \in PypiAnswers(MaxIndex) : CheckVersions(pypi)

SpecClassify == InitClassify /\ [][NextClassify]_vars

----------------------------------------------------------------------------
(* Claims about the version classification (SpecClassify) *)

PypiVersions == get_package_versions_from_pypi(call.args.pypi)
PypiLatest == PypiVersions.val[Len(PypiVersions.val)]

\* a verdict was returned for an installed version below the latest on PyPI
OutdatedVerdict ==
    /\ call.op = "check_versions" /\ call.ret.kind = "dict"
    /\ version # None /\ PypiVersions # None
    /\ SeqLess(parse_version(version.val), parse_version(PypiLatest))

\* C5 as stated: when the installed version is lower than the latest one, the
\* verdict has status 1, major outdated with the maximum as latest, and minor
\* outdated is true when PyPI holds a higher version of the same major line and
\* false, with the installed version as latest, when it holds none.
C5_MinorByMajorLine ==
    OutdatedVerdict =>
        /\ call.ret.val.code = 1
        /\ call.ret.val.major_version = [outdated |-> Bool(TRUE), latest |-> Str(PypiLatest)]
        /\ IF \E x \in call.args.pypi.release_ids :
                 /\ Split(x)[1] = Split(version.val)[1]
                 /\ SeqLess(parse_version(version.val), parse_version(x))
           THEN call.ret.val.minor_version.outdated = Bool(TRUE)
           ELSE call.ret.val.minor_version = [outdated |-> Bool(FALSE), latest |-> version]

\* the releases with the first two segments of the installed version
SameMinorLine ==
    { x \in call.args.pypi.release_ids :
        /\ Len(Split(x)) >= 2 /\ Len(Split(version.val)) >= 2
        /\ Split(x)[1] = Split(version.val)[1]
        /\ Split(x)[2] = Split(version.val)[2] }

\* C5 amended: when the installed version is lower than the latest one, the
\* verdict has status 1, major outdated with the maximum as latest; minor
\* outdated is true when PyPI holds a higher version with the same first two
\* segments, false when it holds versions of that line but none higher (latest
\* is then the last of the line), and unknown with no latest when it holds none
\* of that line.
C5_MinorByMinorLine ==
    OutdatedVerdict =>
        /\ call.ret.val.code = 1
        /\ call.ret.val.major_version = [outdated |-> Bool(TRUE), latest |-> Str(PypiLatest)]
        /\ IF SameMinorLine = {}
           THEN call.ret.val.minor_version = [outdated |-> None, latest |-> None]
           ELSE /\ call.ret.val.minor_version.outdated =
                      Bool(\E x \in SameMinorLine :
                              SeqLess(parse_version(version.val), parse_version(x)))
                /\ call.ret.val.minor_version.latest.val \in SameMinorLine
                /\ \A x \in SameMinorLine :
                      ~SeqLess(LooseVersion(call.ret.val.minor_version.latest.val),
                               LooseVersion(x))

\* C5 witness: installed 1.0.0 against 1.0.0, 1.5.0, 2.0.0 is minor up to date
C5_Witness ==
    /\ OutdatedVerdict
    /\ version = Str(V100)
    /\ call.args.pypi.release_ids = {V100, V150, V200}
    /\ call.ret.val.minor_version = [outdated |-> Bool(FALSE), latest |-> Str(V100)]

\* C6: check_latest_major_minor_versions never raises: for every installed
\* version string and every answer of the index it returns a verdict.
C6_NeverRaises ==
    call.op = "check_versions" => call.ret.kind = "dict"

\* C7: the verdict has status -1 exactly when the lookup fails or lists no
\* version; with a non-empty list, an absent installed version included, the
\* status is 0, 1 or 999.
C7_ErrorStatusOnlyOnLookupFailure ==
    (call.op = "check_versions" /\ call.ret.kind = "dict") =>
        /\ (call.ret.val.code = -1) <=> (PypiVersions = None)
        /\ PypiVersions # None => call.ret.val.code \in {0, 1, 999}

----------------------------------------------------------------------------
(* Requirements.compare_req_file_to_env *)

req_no_version == "-1"

\* [x[1] for x in specs if x[0] == '==']
PinnedVersions(specs) ==
    LET eqs == SelectSeq(specs, LAMBDA x : x[1] = "==")
    IN [i \in 1..Len(eqs) |-> eqs[i][2]]

\* the version the requirement is compared at; the [0] of an empty list raises
ReqVerRaises(specs) == specs # << >> /\ PinnedVersions(specs) = << >>
ReqVerMutant(specs) ==
    IF specs = << >> THEN req_no_version
    ELSE IF PinnedVersions(specs)[Len(PinnedVersions(specs))] = ""
    THEN req_no_version
    ELSE PinnedVersions(specs)[Len(PinnedVersions(specs))]
ReqVer(specs) ==
    IF specs = << >> THEN req_no_version
    ELSE IF PinnedVersions(specs)[1] = "" THEN req_no_version
    ELSE PinnedVersions(specs)[1]

\* req.given: a requirements file was named; req.reqs: key -> specs of what it
\* parses to; env: venv.all_packages, key -> installed version. The four lists
\* are built in the order of a dict's keys and are sets here.
compare_req_file_to_env(req, env) ==
    IF ~req.given THEN None
    ELSE
      LET all_reqs == req.reqs
          req_only == { x \in DOMAIN all_reqs : x \notin DOMAIN env }
          env_only == { x \in DOMAIN env : x \notin DOMAIN all_reqs }
          ver_check == { x \in DOMAIN all_reqs : x \notin req_only }
      IN IF \E package \in ver_check : ReqVerRaises(all_reqs[package])
         THEN Raise("IndexError")
         ELSE Value("tuple",
                [same |-> { <<package, env[package]>> : package \in
                              { x \in ver_check : ReqVer(all_reqs[x]) = env[x] } },
                 verdiff |-> { <<package, ReqVer(all_reqs[package]), env[package]>> :
                               package \in
                                 { x \in ver_check : ReqVer(all_reqs[x]) # env[x] } },
                 req_only |-> req_only,
                 env_only |-> env_only])

CompareReqFileToEnv(req, env) ==
    /\ call' = [op |-> "compare_req_file_to_env", args |-> [req |-> req, env |-> env],
                ret |-> compare_req_file_to_env(req, env), levels |-> << >>]
    /\ UNCHANGED <<name, version, node_distances, anc_trace_memo, venv>>
    /\ UNCHANGED <<ancestors_memo, descendants_memo, search>>

Keys == {"a", "b"}
VersionStrings == {"1.0", "2.0"}
Operators == {"==", ">="}

SpecLists(n) ==
    UNION { [1..len -> Operators \X VersionStrings] : len \in 0..n }

Partial(K, V) == UNION { [D -> V] : D \in SUBSET K }

ReqFiles(n) ==
    { [given |-> FALSE, reqs |-> << >>] }
    \cup { [given |-> TRUE, reqs |-> r] : r \in Partial(Keys, SpecLists(n)) }

----------------------------------------------------------------------------
(* SpecReconcile: a requirements file compared to an environment *)

InitReconcile ==
    /\ NewPackage(NodeA[1], None)
    /\ venv = NoVenv

NextReconcile ==
    /\ ncalls = 0
    /\ ncalls' = 1
    /\ \E req \in ReqFiles(MaxSpecs), env \in Partial(Keys, VersionStrings) :
          CompareReqFileToEnv(req, env)

SpecReconcile == InitReconcile /\ [][NextReconcile]_vars

InBoth == DOMAIN call.args.req.reqs \cap DOMAIN call.args.env

\* C8: for every key of both the requirements file and the environment whose
\* entry has no '==' constraint (no constraint, or only ranges), the comparison
\* completes and puts the key in verdiff with the no-version value and the
\* environment's version, and not in same.
C8_UnpinnedInVersionDiff ==
    (call.op = "compare_req_file_to_env" /\ call.args.req.given) =>
        \A k \in InBoth :
            PinnedVersions(call.args.req.reqs[k]) = << >> =>
                /\ call.ret.kind = "tuple"
                /\ <<k, req_no_version, call.args.env[k]>> \in call.ret.val.verdiff
                /\ <<k, call.args.env[k]>> \notin call.ret.val.same

\* the comparison put key k at requirement version v
ComparedAt(k, v) ==
    IF v = call.args.env[k]
    THEN <<k, call.args.env[k]>> \in call.ret.val.same
    ELSE <<k, v, call.args.env[k]>> \in call.ret.val.verdiff

SeveralPins(k) == Len(PinnedVersions(call.args.req.reqs[k])) > 1

\* C9 as stated: an entry with more than one '==' constraint is compared at
\* the version of its last '==' constraint.
C9_LastPin ==
    (call.op = "compare_req_file_to_env" /\ call.ret.kind = "tuple") =>
        \A k \in InBoth :
            SeveralPins(k) =>
                LET pins == PinnedVersions(call.args.req.reqs[k])
                IN ComparedAt(k, pins[Len(pins)])

\* C9 amended: an entry with more than one '==' constraint is compared at the
\* version of its first '==' constraint.
C9_FirstPin ==
    (call.op = "compare_req_file_to_env" /\ call.ret.kind = "tuple") =>
        \A k \in InBoth :
            SeveralPins(k) =>
                /\ ComparedAt(k, PinnedVersions(call.args.req.reqs[k])[1])
                /\ Cardinality({ t \in call.ret.val.same \cup call.ret.val.verdiff :
                                   t[1] = k }) = 1

\* C9 witness: an entry pinned twice, at the environment's version first and at
\* another one last, is reported as the same
C9_Witness ==
    /\ call.op = "compare_req_file_to_env" /\ call.ret.kind = "tuple"
    /\ \E k \in InBoth :
          /\ SeveralPins(k)
          /\ PinnedVersions(call.args.req.reqs[k])[1] = call.args.env[k]
          /\ PinnedVersions(call.args.req.reqs[k])[2] # call.args.env[k]
          /\ <<k, call.args.env[k]>> \in call.ret.val.same

----------------------------------------------------------------------------
(* Spec: one Package, called up to MaxCalls times with the environments of an
   analysis run *)

EdgeAB == <<NodeA, NodeB>>
EdgeBUproot == <<NodeB, NodeUproot>>
EdgeRootA == <<RootNode, NodeA>>

FacadeNodes == <<NodeA, NodeB, NodeUproot>>

FacadeVenvs ==
    { [nodes |-> FacadeNodes, edges |-> e, has_nodes |-> TRUE] :
        e \in { << >>, <<EdgeAB>>, <<EdgeRootA, EdgeAB, EdgeBUproot>> } }
    \cup { [nodes |-> << >>, edges |-> <<EdgeAB>>, has_nodes |-> FALSE] }

Init ==
    /\ \E n \in {NodeA[1], AbsentName} : NewPackage(n, None)
    /\ venv = NoVenv

FacadeDistances ==
    /\ ncalls < MaxCalls
    /\ ncalls' = ncalls + 1
    /\ \E v \in FacadeVenvs, ir \in BOOLEAN, keep \in BOOLEAN,
          shape \in {"list", "dict"}, force \in BOOLEAN :
          CalcSelfNodeDistances(v, ir, keep, shape, force)

FacadeTrace ==
    /\ ncalls < MaxCalls
    /\ ncalls' = ncalls + 1
    /\ \E v \in FacadeVenvs, keep \in BOOLEAN, force \in BOOLEAN :
          AncestorTrace(v, keep, force)

Next == FacadeDistances \/ FacadeTrace

Spec == Init /\ [][Next]_vars

\* the values calc_node_distances can return for the arguments of a facade call
Computed(v, args) ==
    { o.ret : o \in calc_node_distances(name, v, args.include_root,
                        args.keep_untouched_nodes, args.list_or_dict) }

\* C10: a facade distance call without the force flag that finds a non-empty
\* memo for its shape returns the memo and leaves it as it is, whatever
\* environment and options it is given; any other call computes from its
\* arguments, returns the result and makes it the memo of the shape (a call that
\* raises leaves the memo); the memo of the other shape never changes; and a
\* forced call repeated with the same arguments returns again what is cached.
C10_MemoPolicy ==
    [][call'.op = "calc_self_node_distances" /\ ncalls' = ncalls + 1 =>
         LET shape == call'.args.list_or_dict
             other == IF shape = "list" THEN "dict" ELSE "list"
         IN /\ node_distances'[other] = node_distances[other]
            /\ IF Truthy(node_distances[shape]) /\ ~call'.args.do_full_calc
               THEN /\ call'.ret = node_distances[shape]
                    /\ node_distances'[shape] = node_distances[shape]
               ELSE /\ call'.ret \in Computed(venv', call'.args)
                    /\ node_distances'[shape] =
                          IF call'.ret.kind = "raise" THEN node_distances[shape]
                          ELSE call'.ret
            /\ (/\ call.op = "calc_self_node_distances"
                /\ call.args.do_full_calc /\ call.ret.kind # "raise"
                /\ call'.args = call.args /\ venv' = venv)
               => (call'.ret = call.ret /\ node_distances'[shape] = call.ret)
    ]_vars

\* C10 witness: a call without the force flag returned a memo that is not what
\* its own arguments compute
C10_Witness ==
    /\ call.op = "calc_self_node_distances"
    /\ ~call.args.do_full_calc
    /\ call.ret.kind # "raise"
    /\ call.ret = node_distances[call.args.list_or_dict]
    /\ call.ret \notin Computed(venv, call.args)

\* the edge endpoints are drawn from the node set (a node collection that
\* cannot be iterated has no node set to draw from)
EndpointsInNodes(v) ==
    v.has_nodes =>
        \A i \in 1..Len(v.edges) :
            /\ Lower(v.edges[i][1][1]) \in NodeKeys(v.nodes)
            /\ Lower(v.edges[i][2][1]) \in NodeKeys(v.nodes)

\* C12: every distance or lineage call of the facade, for every origin (one
\* absent from the node set included) and every input whose edge endpoints are
\* drawn from the node set, either returns a map or fails with InvalidNodes or
\* InvalidEdges, and a failing call leaves the memoised distance and lineage
\* results as they were before the call
C12_OnlyPreconditionErrors ==
    [][ (/\ call'.op \in {"calc_self_node_distances", "ancestor_trace"}
         /\ ncalls' = ncalls + 1
         /\ EndpointsInNodes(venv'))
        => IF call'.ret.kind = "raise"
           THEN /\ call'.ret.val \in {"InvalidNodes", "InvalidEdges"}
                /\ node_distances' = node_distances
                /\ anc_trace_memo' = anc_trace_memo
           ELSE call'.ret.kind \in {"dict", "list"}
      ]_vars

----------------------------------------------------------------------------
(* SpecLinks: the accessors of one Package, called one after the other with
   edge collections of the caller's choice *)

MaxLinkEdges == 2

\* Package.ancestors: the memo after the call, which is what the call returns
\* (variant: the list is computed from the edges of every call)
ancestorsMutant(key, memo, edges) ==
    SelectSeq(edges, LAMBDA x : key = Lower(x[2][1]))

ancestors(key, memo, edges) ==
    IF memo = << >>
    THEN SelectSeq(edges, LAMBDA x : key = Lower(x[2][1]))
    ELSE memo

\* Package.descendants
descendants(key, memo, edges) ==
    IF memo = << >>
    THEN SelectSeq(edges, LAMBDA x : key = Lower(x[1][1]))
    ELSE memo

LinkCall(op, edges, ret) ==
    [op |-> op, args |-> [edges |-> edges], ret |-> ret, levels |-> << >>]

Ancestors(edges) ==
    /\ ancestors_memo' = ancestors(Lower(name), ancestors_memo, edges)
    /\ call' = LinkCall("ancestors", edges, Value("list", ancestors_memo'))
    /\ UNCHANGED <<name, version, node_distances, anc_trace_memo, descendants_memo,
                   search, venv>>

Descendants(edges) ==
    /\ descendants_memo' = descendants(Lower(name), descendants_memo, edges)
    /\ call' = LinkCall("descendants", edges, Value("list", descendants_memo'))
    /\ UNCHANGED <<name, version, node_distances, anc_trace_memo, ancestors_memo,
                   search, venv>>

\* Package.get_direct_links_to_package: both accessors, returned as a pair
GetDirectLinksToPackage(edges) ==
    /\ ancestors_memo' = ancestors(Lower(name), ancestors_memo, edges)
    /\ descendants_memo' = descendants(Lower(name), descendants_memo, edges)
    /\ call' = LinkCall("get_direct_links_to_package", edges,
                        Value("tuple", <<ancestors_memo', descendants_memo'>>))
    /\ UNCHANGED <<name, version, node_distances, anc_trace_memo, search, venv>>

\* the edge collections handed to the accessors: over the packages a and B and
\* the root node, the empty collection included
LinkEdgeLists == EdgeLists(<<NodeA, NodeB>>, MaxLinkEdges)

InitLinks ==
    /\ \E n \in {NodeA[1], NodeB[1]} : NewPackage(n, None)
    /\ venv = NoVenv

LinksAncestors ==
    /\ ncalls < MaxCalls
    /\ ncalls' = ncalls + 1
    /\ \E edges \in LinkEdgeLists : Ancestors(edges)

LinksDescendants ==
    /\ ncalls < MaxCalls
    /\ ncalls' = ncalls + 1
    /\ \E edges \in LinkEdgeLists : Descendants(edges)

LinksBoth ==
    /\ ncalls < MaxCalls
    /\ ncalls' = ncalls + 1
    /\ \E edges \in LinkEdgeLists : GetDirectLinksToPackage(edges)

NextLinks == LinksAncestors \/ LinksDescendants \/ LinksBoth

SpecLinks == InitLinks /\ [][NextLinks]_vars

\* what directLinks gives for the instance's key and the edges of the last call
DirectLinks ==
    IF InvalidEdgesRaised(call.args.edges) THEN Raise("InvalidEdges")
    ELSE Value("tuple", get_direct_links_to_any_package(name, call.args.edges))

\* C11 as stated: after any sequence of accessor calls, ancestors, descendants
\* and get_direct_links_to_package return what get_direct_links_to_any_package
\* returns for the instance's key and the edges of that call, InvalidEdges for
\* an empty edge collection included
C11_AccessorsAreDirectLinks ==
    /\ call.op = "ancestors" =>
          IF DirectLinks.kind = "raise" THEN call.ret = DirectLinks
          ELSE call.ret = Value("list", DirectLinks.val[1])
    /\ call.op = "descendants" =>
          IF DirectLinks.kind = "raise" THEN call.ret = DirectLinks
          ELSE call.ret = Value("list", DirectLinks.val[2])
    /\ call.op = "get_direct_links_to_package" => call.ret = DirectLinks

\* the links of key among edges, as directLinks filters them (no error)
LinksTo(key, edges) == SelectSeq(edges, LAMBDA x : Lower(x[2][1]) = key)
LinksFrom(key, edges) == SelectSeq(edges, LAMBDA x : Lower(x[1][1]) = key)

\* what an accessor answers: the list it holds when that list is not empty,
\* else the links found in the edges of the call
Answer(held, found) == IF held # << >> THEN held ELSE found

\* C11 amended: in every accessor call, each list returned is the list the
\* instance already holds from an earlier call when that list is not empty
\* (whatever edges are passed now), and otherwise the links of the instance's
\* key among the edges of this call, filtered as get_direct_links_to_any_package
\* filters them; an empty edge collection raises nothing
C11_AccessorsMemoFirst ==
    [][ LET key == Lower(name)
            edges == call'.args.edges
            anc == Answer(ancestors_memo, LinksTo(key, edges))
            dec == Answer(descendants_memo, LinksFrom(key, edges))
        IN /\ call'.op = "ancestors" => call'.ret = Value("list", anc)
           /\ call'.op = "descendants" => call'.ret = Value("list", dec)
           /\ call'.op = "get_direct_links_to_package" =>
                 call'.ret = Value("tuple", <<anc, dec>>)
      ]_vars

\* C11 witness: a later call of ancestors with edges that hold other links of
\* the key than the list it returns
C11_Witness ==
    /\ call.op = "ancestors" /\ ncalls > 1
    /\ call.args.edges # << >>
    /\ call.ret.val # << >>
    /\ call.ret.val # LinksTo(Lower(name), call.args.edges)

----------------------------------------------------------------------------
(* SpecTraversal: one traversal, a call of rec_fun at a time. search holds the
   arguments of the pending rec_fun call (search_set, cur_level) and the
   dictionaries of the enclosing calc_node_distances / ancestor_trace call *)

MaxLevel == 5
MaxCycleEdges == 3

Running(mode, include_root, search_set, cur_level, st) ==
    [status |-> "running", mode |-> mode, include_root |-> include_root,
     search_set |-> search_set, cur_level |-> cur_level, st |-> st]

\* the traversal is over: rec_fun returned without a further call, or raised
Finished(status, sr) == [sr EXCEPT !.status = status]

\* calc_node_distances up to its call rec_fun([package.lower()], 0); a package
\* that is not a key of dist_dict returns at once
StartDistance ==
    /\ search.status = "idle"
    /\ \E include_root \in BOOLEAN :
          LET package == Lower(name)
              st == InitSearch(venv.nodes, include_root)
              sr == Running("distance", include_root, <<package>>, 0, st)
          IN search' = IF package \in DOMAIN st.dist_dict THEN sr
                       ELSE Finished("returned", sr)
    /\ UNCHANGED <<name, version, node_distances, anc_trace_memo, ancestors_memo,
                   descendants_memo, venv, call, ncalls>>

\* ancestor_trace up to its call rec_fun([self.key], 0)
StartTrace ==
    /\ search.status = "idle"
    /\ search' = Running("trace", TRUE, <<Lower(name)>>, 0,
                         InitSearch(venv.nodes, TRUE))
    /\ UNCHANGED <<name, version, node_distances, anc_trace_memo, ancestors_memo,
                   descendants_memo, venv, call, ncalls>>

\* (variant: rec_fun calls itself whether or not to_search_next is empty)
AfterLoopMutant(sr, s1) ==
    IF s1.exc # NoExc THEN {Finished("raised", [sr EXCEPT !.st = s1])}
    ELSE { Running(sr.mode, sr.include_root, nxt, sr.cur_level + 1, s1) :
             nxt \in Orderings(Range(s1.to_search_next)) }

\* what one call of rec_fun leaves, given the state s1 after its for loop: an
\* exception, the end of the recursion, or the next call with the frontier
\* list(set(to_search_next)) in one of its orders
AfterLoop(sr, s1) ==
    IF s1.exc # NoExc THEN {Finished("raised", [sr EXCEPT !.st = s1])}
    ELSE IF s1.to_search_next = << >>
    THEN {Finished("returned", [sr EXCEPT !.st = s1])}
    ELSE { Running(sr.mode, sr.include_root, nxt, sr.cur_level + 1, s1) :
             nxt \in Orderings(Range(s1.to_search_next)) }

\* one call of calc_node_distances.rec_fun
StepDistance ==
    /\ search.status = "running" /\ search.mode = "distance"
    /\ search.cur_level < MaxLevel
    /\ LET s0 == [search.st EXCEPT !.to_search_next = << >>,
                                   !.levels = Append(@, search.search_set)]
           s1 == VisitAll(search.search_set, 1, search.cur_level, s0, venv.edges,
                          search.include_root)
       IN search' \in AfterLoop(search, s1)
    /\ UNCHANGED <<name, version, node_distances, anc_trace_memo, ancestors_memo,
                   descendants_memo, venv, call, ncalls>>

\* one call of ancestor_trace.rec_fun
StepTrace ==
    /\ search.status = "running" /\ search.mode = "trace"
    /\ search.cur_level < MaxLevel
    /\ LET s0 == [search.st EXCEPT !.to_search_next = << >>,
                                   !.levels = Append(@, search.search_set)]
           s1 == VisitAllAncestors(search.search_set, 1, search.cur_level, s0,
                                   venv.edges, search.include_root)
       IN search' \in AfterLoop(search, s1)
    /\ UNCHANGED <<name, version, node_distances, anc_trace_memo, ancestors_memo,
                   descendants_memo, venv, call, ncalls>>

\* the snapshots traversed: the packages a and B, with every list of up to n
\* edges among them and from the root node (cycles, self-loops and duplicate
\* edges included)
TraversalVenvs(n) ==
    { [nodes |-> <<NodeA, NodeB>>, edges |-> edges, has_nodes |-> TRUE] :
        edges \in EdgeLists(<<NodeA, NodeB>>, n) }

InitTraversal ==
    /\ \E n \in {NodeA[1], NodeB[1], RootStr} : NewPackage(n, None)
    /\ venv \in TraversalVenvs(MaxCycleEdges)

NextTraversal == StartDistance \/ StartTrace \/ StepDistance \/ StepTrace

SpecTraversal == InitTraversal /\ [][NextTraversal]_vars

\* the interpreter runs a call to its end: a step that can be taken is taken
SpecTraversalFair == SpecTraversal /\ WF_vars(NextTraversal)

\* C13: for every snapshot (cycles, self-loops and duplicate edges included)
\* the propagation of the distance computation and of the ancestor trace comes
\* to an end: rec_fun finds an empty next frontier and returns, or the call
\* raises
C13_Terminates == <>(search.status \in {"returned", "raised"})

\* the edges hold a cycle: a self-loop, or two nodes linked in both directions
HasCycle(edges) ==
    \E l \in Links(edges) : l[1] = l[2] \/ <<l[2], l[1]>> \in Links(edges)

\* C13 witness: a traversal over edges with a cycle that went through three
\* frontiers and returned
C13_Witness ==
    /\ search.status = "returned"
    /\ HasCycle(venv.edges)
    /\ Len(search.st.levels) >= 3

\* the frontiers of the traversal so far: those rec_fun has gone through and,
\* while it runs, the one handed to its pending call
Frontiers ==
    IF search.status = "running"
    THEN Append(search.st.levels, search.search_set)
    ELSE search.st.levels

InDistanceTraversal == search.status # "idle" /\ search.mode = "distance"

\* C14 as stated: during a distance traversal no node is placed in more than
\* one frontier (the next frontier holds no node of the current or of an
\* earlier one)
C14_VisitedOnce ==
    InDistanceTraversal =>
        \A i \in 1..Len(Frontiers), j \in 1..Len(Frontiers) :
            i < j => Range(Frontiers[i]) \cap Range(Frontiers[j]) = {}

\* position of key p in the frontier f
Position(f, p) == CHOOSE i \in 1..Len(f) : f[i] = p

\* the first frontier that holds key p
FirstLevel(p) ==
    CHOOSE i \in 1..Len(Frontiers) :
        /\ p \in Range(Frontiers[i])
        /\ \A j \in 1..(i - 1) : p \notin Range(Frontiers[j])

\* the links the traversal follows, in either direction
Followed ==
    LET L == IF search.include_root THEN Links(venv.edges)
             ELSE WithoutRoot(Links(venv.edges))
    IN L \cup { <<l[2], l[1]>> : l \in L }

\* C14 amended: during a distance traversal the next frontier holds no node of
\* a frontier before the current one; it may hold a node p of the current
\* frontier, and then only one linked to a node that comes before p in the
\* current frontier. So a node is placed in at most two frontiers, consecutive
\* ones, and the distance recorded for it is the level of the first of them
C14_VisitedAtMostTwice ==
    InDistanceTraversal =>
        /\ \A i \in 1..Len(Frontiers), j \in 1..Len(Frontiers) :
              i + 1 < j => Range(Frontiers[i]) \cap Range(Frontiers[j]) = {}
        /\ \A i \in 1..(Len(Frontiers) - 1) :
              \A p \in Range(Frontiers[i]) \cap Range(Frontiers[i + 1]) :
                  \E k \in 1..(Position(Frontiers[i], p) - 1) :
                      <<Frontiers[i][k], p>> \in Followed
        /\ \A i \in 1..Len(search.st.levels) :
              \A p \in Range(search.st.levels[i]) :
                  search.st.dist_dict[p] = FirstLevel(p) - 1

\* C14 witness: a distance traversal that placed a node in two frontiers
C14_Witness ==
    /\ InDistanceTraversal
    /\ \E i \in 1..(Len(Frontiers) - 1) :
          Range(Frontiers[i]) \cap Range(Frontiers[i + 1]) # {}
    /\ search.status = "returned"

=============================================================================
